---- MODULE Spec2Model ----
(***************************************************************************)
(* OpDepositReceipt / OpDepositReceiptWithBloom                            *)
(* (crates/consensus/src/receipt/receipts.rs): the receipt value, the      *)
(* wrapper that caches the logs bloom, and the wrapper's RLP codec         *)
(* (payload_len, encode_fields, decode_receipt, length).                   *)
(*                                                                         *)
(* Bytes are the integers 0..255, a buffer is a sequence of bytes, and a   *)
(* cursor (&mut &[u8]) is the sequence of bytes not yet consumed.          *)
(* Option<T> is a sequence of length 0 (None) or 1 (Some(v)).              *)
(***************************************************************************)
EXTENDS Integers, Sequences, FiniteSets, TLC

VARIABLES
    receipt,    \* the OpDepositReceipt handed to with_bloom / new
    wrapper,    \* the OpDepositReceiptWithBloom built from it
    out,        \* the sink (Vec<u8>) that encode appends to
    len,        \* Option<usize>: what length() returned for wrapper
    buf,        \* the caller's cursor handed to decode
    before,     \* the caller's cursor as it was when decode was called
    res,        \* what the last decode call returned
    reenc,      \* Option<Vec<u8>>: the decoded wrapper encoded again
    records,    \* how many times encode has appended to the sink
    pc          \* where the caller is

vars == <<receipt, wrapper, out, len, buf, before, res, reenc, records, pc>>

(***************************************************************************)
(* Bounds of the model.                                                    *)
(***************************************************************************)
MaxLogs == 1        \* logs per receipt
MaxRecords == 2     \* records encoded one after the other into the sink
MaxExtraItems == 1  \* items a hand-crafted input adds inside the list

(***************************************************************************)
(* Sizes fixed by the types.                                               *)
(***************************************************************************)
BloomBytes == 256     \* Bloom = FixedBytes<256>
AddressBytes == 20    \* Address = FixedBytes<20>
HashBytes == 32       \* B256 = FixedBytes<32>
U64Bytes == 8         \* size_of::<u64>()
U128Bytes == 16       \* size_of::<u128>()

None == <<>>
Some(v) == <<v>>
IsSome(o) == Len(o) = 1
IsNone(o) == Len(o) = 0

Drop(s, n) == SubSeq(s, n + 1, Len(s))
Take(s, n) == SubSeq(s, 1, n)

(***************************************************************************)
(* alloy_rlp: integers are big-endian with no leading zero byte.           *)
(***************************************************************************)
RECURSIVE to_be_bytes(_)
to_be_bytes(n) ==
    IF n = 0 THEN <<>> ELSE Append(to_be_bytes(n \div 256), n % 256)

RECURSIVE from_be_bytes(_)
from_be_bytes(bytes) ==
    IF bytes = <<>> THEN 0
    ELSE 256 * from_be_bytes(Take(bytes, Len(bytes) - 1)) + bytes[Len(bytes)]

\* alloy_rlp::length_of_length: the length of the header of a payload.
length_of_length(payload_length) ==
    IF payload_length < 56 THEN 1
    ELSE 1 + Len(to_be_bytes(payload_length))

\* alloy_rlp::Header::encode
HeaderEncode(list, payload_length) ==
    IF payload_length < 56
    THEN << (IF list THEN 192 ELSE 128) + payload_length >>
    ELSE << (IF list THEN 247 ELSE 183) + Len(to_be_bytes(payload_length)) >>
             \o to_be_bytes(payload_length)

\* Encodable for [u8] / Bytes / FixedBytes<N>
BytesEncode(s) ==
    IF Len(s) = 1 /\ s[1] < 128 THEN s
    ELSE HeaderEncode(FALSE, Len(s)) \o s

BytesLength(s) ==
    IF Len(s) = 1 /\ s[1] < 128 THEN 1
    ELSE Len(s) + length_of_length(Len(s))

\* Encodable for u64 / u128
UintEncode(n) ==
    IF n = 0 THEN <<128>>
    ELSE IF n < 128 THEN <<n>>
    ELSE <<128 + Len(to_be_bytes(n))>> \o to_be_bytes(n)

UintLength(n) ==
    IF n < 128 THEN 1 ELSE 1 + Len(to_be_bytes(n))

\* Encodable for bool
BoolEncode(b) == IF b THEN <<1>> ELSE <<128>>

(***************************************************************************)
(* Eip658Value: Eip658(bool) or PostState(B256).                           *)
(***************************************************************************)
ZeroHash == [i \in 1..HashBytes |-> 0]
Eip658(b) == [tag |-> "Eip658", b |-> b, h |-> ZeroHash]
PostState(h) == [tag |-> "PostState", b |-> FALSE, h |-> h]

StatusEncode(status) ==
    IF status.tag = "Eip658" THEN BoolEncode(status.b)
    ELSE BytesEncode(status.h)

StatusLength(status) ==
    IF status.tag = "Eip658" THEN 1 ELSE 1 + HashBytes

(***************************************************************************)
(* Log = (address, topics, data).                                          *)
(***************************************************************************)
RECURSIVE FlatMap(_, _)
FlatMap(Op(_), s) ==
    IF s = <<>> THEN <<>> ELSE Op(Head(s)) \o FlatMap(Op, Tail(s))

TopicsEncode(topics) ==
    LET payload == FlatMap(BytesEncode, topics)
    IN  HeaderEncode(TRUE, Len(payload)) \o payload

LogPayload(log) ==
    BytesEncode(log.address) \o TopicsEncode(log.topics) \o BytesEncode(log.data)

LogEncode(log) ==
    HeaderEncode(TRUE, Len(LogPayload(log))) \o LogPayload(log)

\* Encodable for Vec<Log>
LogsEncode(logs) ==
    LET payload == FlatMap(LogEncode, logs)
    IN  HeaderEncode(TRUE, Len(payload)) \o payload

LogsLength(logs) ==
    LET payload_length == Len(FlatMap(LogEncode, logs))
    IN  payload_length + length_of_length(payload_length)

(***************************************************************************)
(* Decoding.  A field decoder takes the cursor and returns either the      *)
(* value with the advanced cursor, or an alloy_rlp::Error.                 *)
(***************************************************************************)
DecOk(val, rest) == [ok |-> TRUE, err |-> "", val |-> val, rest |-> rest]
DecErr(err) == [ok |-> FALSE, err |-> err, val |-> <<>>, rest |-> <<>>]

HdrOk(list, payload_length, rest) ==
    [ok |-> TRUE, err |-> "", list |-> list,
     payload_length |-> payload_length, rest |-> rest]
HdrErr(err) ==
    [ok |-> FALSE, err |-> err, list |-> FALSE, payload_length |-> 0, rest |-> <<>>]

\* A lenient header check: a declared length beyond the end of the buffer is
\* cut to the bytes that are there.
HeaderChecked_Clamped(list, payload_length, rest) ==
    HdrOk(list, IF Len(rest) < payload_length THEN Len(rest) ELSE payload_length, rest)

\* The end of Header::decode: the buffer must hold the declared payload.
HeaderChecked(list, payload_length, rest) ==
    IF Len(rest) < payload_length THEN HdrErr("InputTooShort")
    ELSE HdrOk(list, payload_length, rest)

\* The long form of a header: len_of_len bytes of big-endian length follow.
\* A length of four or more bytes declares at least 2^24 bytes, more than
\* any buffer of the model holds.
HeaderDecodeLong(list, len_of_len, b) ==
    IF Len(b) < len_of_len THEN HdrErr("InputTooShort")
    ELSE IF b[1] = 0 THEN HdrErr("LeadingZero")
    ELSE IF len_of_len > 3 THEN HdrErr("InputTooShort")
    ELSE IF from_be_bytes(Take(b, len_of_len)) < 56 THEN HdrErr("NonCanonicalSize")
    ELSE HeaderChecked(list, from_be_bytes(Take(b, len_of_len)), Drop(b, len_of_len))

\* alloy_rlp::Header::decode
HeaderDecode(b) ==
    IF b = <<>> THEN HdrErr("InputTooShort")
    ELSE IF b[1] < 128 THEN HdrOk(FALSE, 1, b)
    ELSE IF b[1] <= 183 THEN
        IF b[1] = 129 /\ Len(b) = 1 THEN HdrErr("InputTooShort")
        ELSE IF b[1] = 129 /\ b[2] < 128 THEN HdrErr("NonCanonicalSingleByte")
        ELSE HeaderChecked(FALSE, b[1] - 128, Tail(b))
    ELSE IF b[1] <= 191 THEN HeaderDecodeLong(FALSE, b[1] - 183, Tail(b))
    ELSE IF b[1] <= 247 THEN HeaderChecked(TRUE, b[1] - 192, Tail(b))
    ELSE HeaderDecodeLong(TRUE, b[1] - 247, Tail(b))

\* let x = value; rest(x): the value is computed once and then named.
Let(value, Rest(_)) == Rest(value)

\* alloy_rlp::Header::decode_bytes: the payload of a string (or of a list).
DecodeBytes(b, is_list) ==
    Let(HeaderDecode(b), LAMBDA h :
        IF ~h.ok THEN DecErr(h.err)
        ELSE IF h.list /= is_list
             THEN DecErr(IF is_list THEN "UnexpectedString" ELSE "UnexpectedList")
        ELSE DecOk(Take(h.rest, h.payload_length), Drop(h.rest, h.payload_length)))

\* An integer decoder that accepts leading zero bytes.
UintDecode_Lenient(b, size) ==
    Let(DecodeBytes(b, FALSE), LAMBDA d :
        IF ~d.ok THEN d
        ELSE IF Len(d.val) > size THEN DecErr("Overflow")
        ELSE DecOk(from_be_bytes(d.val), d.rest))

\* Decodable for u64 (size 8) and u128 (size 16): static_left_pad.
UintDecode(b, size) ==
    Let(DecodeBytes(b, FALSE), LAMBDA d :
        IF ~d.ok THEN d
        ELSE IF Len(d.val) > size THEN DecErr("Overflow")
        ELSE IF d.val /= <<>> /\ d.val[1] = 0 THEN DecErr("LeadingZero")
        ELSE DecOk(from_be_bytes(d.val), d.rest))

\* Decodable for bool
BoolDecode(b) ==
    Let(UintDecode(b, 1), LAMBDA d :
        IF ~d.ok THEN d
        ELSE IF d.val = 0 THEN DecOk(FALSE, d.rest)
        ELSE IF d.val = 1 THEN DecOk(TRUE, d.rest)
        ELSE DecErr("Custom"))

\* Decodable for FixedBytes<N>
FixedBytesDecode(b, n) ==
    Let(DecodeBytes(b, FALSE), LAMBDA d :
        IF ~d.ok THEN d
        ELSE IF Len(d.val) /= n THEN DecErr("UnexpectedLength")
        ELSE d)

\* Decodable for Eip658Value: the first byte picks the variant.
StatusDecode(b) ==
    IF b /= <<>> /\ b[1] = 128 + HashBytes THEN
        Let(FixedBytesDecode(b, HashBytes), LAMBDA d :
            IF d.ok THEN DecOk(PostState(d.val), d.rest) ELSE d)
    ELSE IF b /= <<>> /\ b[1] \in {1, 128} THEN
        Let(BoolDecode(b), LAMBDA d :
            IF d.ok THEN DecOk(Eip658(d.val), d.rest) ELSE d)
    ELSE DecErr("Custom")

\* Decodable for Vec<T>: the items of the list's payload, until it is empty.
RECURSIVE ItemsDecode(_, _, _)
ItemsDecode(Item(_), payload, acc) ==
    IF payload = <<>> THEN DecOk(acc, <<>>)
    ELSE Let(Item(payload), LAMBDA d :
            IF ~d.ok THEN d
            ELSE ItemsDecode(Item, d.rest, Append(acc, d.val)))

HashDecode(b) == FixedBytesDecode(b, HashBytes)

\* Decodable for Vec<B256>
TopicsDecode(b) ==
    Let(DecodeBytes(b, TRUE), LAMBDA l :
        IF ~l.ok THEN l
        ELSE Let(ItemsDecode(HashDecode, l.val, <<>>), LAMBDA items :
                IF ~items.ok THEN items ELSE DecOk(items.val, l.rest)))

\* Decodable for Log: header, address, topics, data, then the length check
\* (the header's list flag is not looked at).
LogDecode(b) ==
    Let(HeaderDecode(b), LAMBDA h :
    IF ~h.ok THEN DecErr(h.err) ELSE
    Let(FixedBytesDecode(h.rest, AddressBytes), LAMBDA a :
    IF ~a.ok THEN a ELSE
    Let(TopicsDecode(a.rest), LAMBDA t :
    IF ~t.ok THEN t ELSE
    Let(DecodeBytes(t.rest, FALSE), LAMBDA d :
    IF ~d.ok THEN d
    ELSE IF h.payload_length /= Len(h.rest) - Len(d.rest) THEN DecErr("Custom")
    ELSE DecOk([address |-> a.val, topics |-> t.val, data |-> d.val], d.rest)))))

\* Decodable for Vec<Log>
LogsDecode(b) ==
    Let(DecodeBytes(b, TRUE), LAMBDA l :
        IF ~l.ok THEN l
        ELSE Let(ItemsDecode(LogDecode, l.val, <<>>), LAMBDA items :
                IF ~items.ok THEN items ELSE DecOk(items.val, l.rest)))

(***************************************************************************)
(* OpDepositReceipt and the bloom of its logs.                             *)
(***************************************************************************)
Receipt(status, cumulative_gas_used, logs) ==
    [status |-> status, cumulative_gas_used |-> cumulative_gas_used, logs |-> logs]

OpDepositReceipt(inner, deposit_nonce, deposit_receipt_version) ==
    [inner |-> inner, deposit_nonce |-> deposit_nonce,
     deposit_receipt_version |-> deposit_receipt_version]

OpDepositReceiptWithBloom(r, logs_bloom) ==
    [receipt |-> r, logs_bloom |-> logs_bloom]

RECURSIVE WeightedSum(_, _)
WeightedSum(bytes, k) ==
    IF bytes = <<>> THEN 0
    ELSE (WeightedSum(Take(bytes, Len(bytes) - 1), k)
            + (Len(bytes) + k) * bytes[Len(bytes)]) % 65536

\* Bloom::accrue sets three bits, each taken from two bytes of
\* keccak256(input) masked to 11 bits.  The hash is not computed here: a
\* fixed function of the input bytes stands for its first six bytes.
AccrueBits(input) ==
    { (WeightedSum(input, 7 * i) + 257 * i + Len(input)) % 2048 : i \in {0, 2, 4} }

\* Bloom::accrue_log: the address, then every topic.
LogBits(log) ==
    AccrueBits(log.address)
        \cup UNION { AccrueBits(log.topics[i]) : i \in 1..Len(log.topics) }

RECURSIVE BitsToByte(_, _, _)
BitsToByte(bits, base, k) ==
    IF k = 8 THEN 0
    ELSE (IF base + k \in bits THEN 1 ELSE 0) + 2 * BitsToByte(bits, base, k + 1)

\* Bit n lives in byte BLOOM_SIZE_BYTES - 1 - n / 8 (counted from 0), at n % 8.
BloomOfBits(bits) ==
    [j \in 1..BloomBytes |-> BitsToByte(bits, (BloomBytes - j) * 8, 0)]

bloom_slow(r) ==
    BloomOfBits(UNION { LogBits(r.inner.logs[i]) : i \in 1..Len(r.inner.logs) })

\* From<OpDepositReceipt> for OpDepositReceiptWithBloom, and with_bloom.
with_bloom(r) == OpDepositReceiptWithBloom(r, bloom_slow(r))

\* OpDepositReceiptWithBloom::new
new(r, bloom) == OpDepositReceiptWithBloom(r, bloom)

(***************************************************************************)
(* The codec of OpDepositReceiptWithBloom.                                 *)
(***************************************************************************)
\* Option::map_or(0, |v| v.length())
OptLength(o) == IF IsSome(o) THEN UintLength(o[1]) ELSE 0

\* A payload length that leaves the version out.
payload_len_NoVersion(w) ==
    StatusLength(w.receipt.inner.status)
        + UintLength(w.receipt.inner.cumulative_gas_used)
        + BytesLength(w.logs_bloom)
        + LogsLength(w.receipt.inner.logs)
        + OptLength(w.receipt.deposit_nonce)

payload_len(w) ==
    StatusLength(w.receipt.inner.status)
        + UintLength(w.receipt.inner.cumulative_gas_used)
        + BytesLength(w.logs_bloom)
        + LogsLength(w.receipt.inner.logs)
        + OptLength(w.receipt.deposit_nonce)
        + OptLength(w.receipt.deposit_receipt_version)

receipt_rlp_header(w) == [list |-> TRUE, payload_length |-> payload_len(w)]

\* An absent field written as an empty string.
OptEncode_Placeholder(o) == IF IsSome(o) THEN UintEncode(o[1]) ELSE <<128>>

\* if let Some(v) = field { v.encode(out) }
OptEncode(o) == IF IsSome(o) THEN UintEncode(o[1]) ELSE <<>>

\* An encoder that writes a zero nonce before a version that has none.
encode_fields_NonceDefault(w) ==
    HeaderEncode(receipt_rlp_header(w).list, receipt_rlp_header(w).payload_length)
        \o StatusEncode(w.receipt.inner.status)
        \o UintEncode(w.receipt.inner.cumulative_gas_used)
        \o BytesEncode(w.logs_bloom)
        \o LogsEncode(w.receipt.inner.logs)
        \o (IF IsNone(w.receipt.deposit_nonce) /\ IsSome(w.receipt.deposit_receipt_version)
            THEN UintEncode(0) ELSE OptEncode(w.receipt.deposit_nonce))
        \o OptEncode(w.receipt.deposit_receipt_version)

\* The bytes encode_fields appends to the sink.
encode_fields(w) ==
    HeaderEncode(receipt_rlp_header(w).list, receipt_rlp_header(w).payload_length)
        \o StatusEncode(w.receipt.inner.status)
        \o UintEncode(w.receipt.inner.cumulative_gas_used)
        \o BytesEncode(w.logs_bloom)
        \o LogsEncode(w.receipt.inner.logs)
        \o OptEncode(w.receipt.deposit_nonce)
        \o OptEncode(w.receipt.deposit_receipt_version)

\* Encodable::encode
encode(w, sink) == sink \o encode_fields(w)

\* A length that forgets the list header.
length_NoHeader(w) == payload_len(w)

\* Encodable::length
length(w) ==
    LET payload_length ==
            StatusLength(w.receipt.inner.status)
                + UintLength(w.receipt.inner.cumulative_gas_used)
                + BytesLength(w.logs_bloom)
                + LogsLength(w.receipt.inner.logs)
                + OptLength(w.receipt.deposit_nonce)
                + OptLength(w.receipt.deposit_receipt_version)
    IN  payload_length + length_of_length(payload_length)

\* a - b on usize.  With b > a the build decides: overflow checks panic,
\* without them the result wraps to 2^64 - (b - a), which is at least 1.
UsizeSubPositive(a, b, overflow_checks) ==
    [underflow |-> b > a,
     panic |-> b > a /\ overflow_checks,
     positive |-> IF b > a THEN TRUE ELSE a - b > 0]

\* let remaining = |b| rlp_head.payload_length - (started_len - b.len()) > 0
remaining(payload_length, started_len, b, overflow_checks) ==
    UsizeSubPositive(payload_length, started_len - Len(b), overflow_checks)

\* cond.then(|| Decodable::decode(b)).transpose()?  for Option<u64>
OptDecode(cond, b) ==
    IF cond
    THEN Let(UintDecode(b, U64Bytes), LAMBDA d :
            IF d.ok THEN DecOk(Some(d.val), d.rest) ELSE d)
    ELSE DecOk(None, b)

\* What a call of decode returns, and where it leaves the caller's cursor.
RetErr(err, cursor, underflow) ==
    [kind |-> "Err", err |-> err, expected |-> 0, got |-> 0,
     value |-> None, cursor |-> cursor, underflow |-> underflow]
RetMismatch(expected, got, cursor, underflow) ==
    [kind |-> "Err", err |-> "ListLengthMismatch", expected |-> expected,
     got |-> got, value |-> None, cursor |-> cursor, underflow |-> underflow]
RetPanic(cursor) ==
    [kind |-> "Panic", err |-> "", expected |-> 0, got |-> 0,
     value |-> None, cursor |-> cursor, underflow |-> TRUE]
RetOk(this, cursor, underflow) ==
    [kind |-> "Ok", err |-> "", expected |-> 0, got |-> 0,
     value |-> Some(this), cursor |-> cursor, underflow |-> underflow]

\* The two optional fields stored in each other's place.
this_of_Swapped(m, deposit_nonce, deposit_receipt_version) ==
    OpDepositReceiptWithBloom(
        OpDepositReceipt(Receipt(m.success, m.cumulative_gas_used, m.logs),
                         deposit_receipt_version, deposit_nonce),
        m.bloom)

\* let receipt = OpDepositReceipt { .. }; let this = Self { receipt, logs_bloom }
this_of(m, deposit_nonce, deposit_receipt_version) ==
    OpDepositReceiptWithBloom(
        OpDepositReceipt(Receipt(m.success, m.cumulative_gas_used, m.logs),
                         deposit_nonce, deposit_receipt_version),
        m.bloom)

\* No final check: whatever was decoded is returned.
check_consumed_NoCheck(caller, rlp_head, started_len, this, b, underflow) ==
    RetOk(this, b, underflow)

\* The local cursor stored into the caller's before the final check.
check_consumed_StoreFirst(caller, rlp_head, started_len, this, b, underflow) ==
    Let(started_len - Len(b), LAMBDA consumed :
        IF consumed /= rlp_head.payload_length
        THEN RetMismatch(rlp_head.payload_length, consumed, b, underflow)
        ELSE RetOk(this, b, underflow))

\* The final check: consumed against the declared payload length, and only
\* then the store of the local cursor b into the caller's (*buf = *b).
check_consumed(caller, rlp_head, started_len, this, b, underflow) ==
    Let(started_len - Len(b), LAMBDA consumed :
        IF consumed /= rlp_head.payload_length
        THEN RetMismatch(rlp_head.payload_length, consumed, caller, underflow)
        ELSE RetOk(this, b, underflow))

\* The two optional fields of decode_receipt and what follows them, with the
\* four mandatory fields decoded into m and b the cursor after them.
decode_trailing(caller, rlp_head, started_len, m, b, overflow_checks) ==
    Let(remaining(rlp_head.payload_length, started_len, b, overflow_checks),
        LAMBDA r1 :
    IF r1.panic THEN RetPanic(caller) ELSE
    Let(OptDecode(r1.positive, b), LAMBDA deposit_nonce :
    IF ~deposit_nonce.ok THEN RetErr(deposit_nonce.err, caller, r1.underflow) ELSE
    Let(remaining(rlp_head.payload_length, started_len, deposit_nonce.rest,
                  overflow_checks),
        LAMBDA r2 :
    IF r2.panic THEN RetPanic(caller) ELSE
    Let(OptDecode(r2.positive, deposit_nonce.rest), LAMBDA deposit_receipt_version :
    IF ~deposit_receipt_version.ok
    THEN RetErr(deposit_receipt_version.err, caller, r1.underflow \/ r2.underflow)
    ELSE check_consumed(caller, rlp_head, started_len,
                        this_of(m, deposit_nonce.val, deposit_receipt_version.val),
                        deposit_receipt_version.rest,
                        r1.underflow \/ r2.underflow)))))

\* OpDepositReceiptWithBloom::decode_receipt on the caller's cursor.  It works
\* on a copy b of the cursor and stores b back only when it returns Ok.
decode_receipt(caller, overflow_checks) ==
    Let(HeaderDecode(caller), LAMBDA rlp_head :
    IF ~rlp_head.ok THEN RetErr(rlp_head.err, caller, FALSE)
    ELSE IF ~rlp_head.list THEN RetErr("UnexpectedString", caller, FALSE) ELSE
    Let(Len(rlp_head.rest), LAMBDA started_len :
    Let(StatusDecode(rlp_head.rest), LAMBDA success :
    IF ~success.ok THEN RetErr(success.err, caller, FALSE) ELSE
    Let(UintDecode(success.rest, U128Bytes), LAMBDA cumulative_gas_used :
    IF ~cumulative_gas_used.ok THEN RetErr(cumulative_gas_used.err, caller, FALSE) ELSE
    Let(FixedBytesDecode(cumulative_gas_used.rest, BloomBytes), LAMBDA bloom :
    IF ~bloom.ok THEN RetErr(bloom.err, caller, FALSE) ELSE
    Let(LogsDecode(bloom.rest), LAMBDA logs :
    IF ~logs.ok THEN RetErr(logs.err, caller, FALSE)
    ELSE decode_trailing(caller, rlp_head, started_len,
                         [success |-> success.val,
                          cumulative_gas_used |-> cumulative_gas_used.val,
                          bloom |-> bloom.val, logs |-> logs.val],
                         logs.rest, overflow_checks)))))))

(***************************************************************************)
(* The values the callers of the model use.                                *)
(***************************************************************************)
Address11 == [i \in 1..AddressBytes |-> IF i = AddressBytes THEN 17 ELSE 0]
AddressFa == [i \in 1..AddressBytes |-> IF i = 1 THEN 250 ELSE 202]
TopicDead ==
    [i \in 1..HashBytes |->
        IF i = HashBytes THEN 173 ELSE IF i = HashBytes - 1 THEN 222 ELSE 0]
TopicBeef ==
    [i \in 1..HashBytes |->
        IF i = HashBytes THEN 239 ELSE IF i = HashBytes - 1 THEN 190 ELSE 0]

Log(address, topics, data) == [address |-> address, topics |-> topics, data |-> data]

\* The log of decode_legacy_receipt, and a log with no topic and one data byte.
LogValues ==
    { Log(Address11, <<TopicDead, TopicBeef>>, <<1, 0, 255>>),
      Log(AddressFa, <<>>, <<1>>) }

RECURSIVE SeqsUpTo(_, _)
SeqsUpTo(S, n) ==
    IF n = 0 THEN { <<>> }
    ELSE SeqsUpTo(S, n - 1)
            \cup { Append(q, x) : q \in { t \in SeqsUpTo(S, n - 1) : Len(t) = n - 1 },
                                  x \in S }

StatusValues == { Eip658(TRUE), Eip658(FALSE), PostState(TopicBeef) }
GasValues == { 1, 46913 }
NonceValues == { None, Some(0), Some(4012991) }
VersionValues == { None, Some(1) }

\* Every receipt value of the struct, the ones with a version and no nonce
\* included: the fields are public and independent.
ReceiptValues ==
    { OpDepositReceipt(Receipt(s, g, l), n, v) :
        s \in StatusValues, g \in GasValues, l \in SeqsUpTo(LogValues, MaxLogs),
        n \in NonceValues, v \in VersionValues }

\* The well-formed presence combinations (what Arbitrary generates).
WellFormed(r) == IsSome(r.deposit_receipt_version) => IsSome(r.deposit_nonce)

\* A bloom handed to new() that is not the bloom of the logs.
BloomValues == { [i \in 1..BloomBytes |-> 255] }

\* Single items a hand-crafted input puts inside the list after the encoder's
\* fields: integers in canonical form (0, 255), an integer with a leading
\* zero, a single byte in the long form, and an empty list.
ExtraItemValues ==
    { <<128>>, <<129, 255>>, <<130, 0, 1>>, <<129, 5>>, <<192>> }

\* Bytes after the declared payload: the bytes of a following record.
TrailingValues == { <<>>, <<1>>, <<1, 128>> }

NoResult ==
    [kind |-> "None", err |-> "", expected |-> 0, got |-> 0,
     value |-> None, underflow |-> FALSE]

Returned(r) ==
    [kind |-> r.kind, err |-> r.err, expected |-> r.expected, got |-> r.got,
     value |-> r.value, underflow |-> r.underflow]

\* The list payload of the bytes encode wrote for w (without the header).
FieldsOf(w) == Drop(encode_fields(w), length_of_length(payload_len(w)))

\* The number of bytes the four mandatory fields of w take.
MandatoryLen(w) ==
    payload_len(w) - OptLength(w.receipt.deposit_nonce)
                   - OptLength(w.receipt.deposit_receipt_version)

Init ==
    /\ receipt \in ReceiptValues
    /\ wrapper = None
    /\ out = <<>>
    /\ len = None
    /\ buf = <<>>
    /\ before = <<>>
    /\ res = NoResult
    /\ reenc = None
    /\ records = 0
    /\ pc = "receipt"

\* receipt.with_bloom()
WithBloom ==
    /\ pc = "receipt"
    /\ wrapper' = Some(with_bloom(receipt))
    /\ pc' = "wrapped"
    /\ UNCHANGED <<receipt, out, len, buf, before, res, reenc, records>>

\* OpDepositReceiptWithBloom::new(receipt, bloom)
New ==
    /\ pc = "receipt"
    /\ \E bloom \in BloomValues : wrapper' = Some(new(receipt, bloom))
    /\ pc' = "wrapped"
    /\ UNCHANGED <<receipt, out, len, buf, before, res, reenc, records>>

\* wrapper.length(), compared with what encode wrote.
Length ==
    /\ pc = "encoded"
    /\ len' = Some(length(wrapper[1]))
    /\ pc' = "measured"
    /\ UNCHANGED <<receipt, wrapper, out, buf, before, res, reenc, records>>

\* wrapper.encode(&mut out): one more record appended to the sink.
Encode ==
    /\ pc \in {"wrapped", "encoded"}
    /\ records < MaxRecords
    /\ out' = encode(wrapper[1], out)
    /\ records' = records + 1
    /\ pc' = "encoded"
    /\ UNCHANGED <<receipt, wrapper, len, buf, before, res, reenc>>

\* The sink holds exactly one record.
OneRecord == records = 1

\* The caller decodes what the encoder wrote.
Feed ==
    /\ pc = "encoded"
    /\ buf' = out
    /\ pc' = "fed"
    /\ UNCHANGED <<receipt, wrapper, out, len, before, res, reenc, records>>

\* ... what the encoder wrote, without its final byte.
FeedTruncated ==
    /\ pc = "encoded"
    /\ buf' = Take(out, Len(out) - 1)
    /\ pc' = "fed"
    /\ UNCHANGED <<receipt, wrapper, out, len, before, res, reenc, records>>

\* ... what the encoder wrote, followed by other bytes.
FeedTrailing ==
    /\ pc = "encoded"
    /\ \E t \in TrailingValues \ { <<>> } : buf' = out \o t
    /\ pc' = "fed"
    /\ UNCHANGED <<receipt, wrapper, out, len, before, res, reenc, records>>

\* ... a hand-crafted list: the encoder's fields and more items after them,
\* all inside the declared payload.
FeedExtraItems ==
    /\ pc = "encoded"
    /\ OneRecord
    /\ \E x \in SeqsUpTo(ExtraItemValues, MaxExtraItems) \ { <<>> } :
         LET items == FlatMap(LAMBDA i : i, x)
         IN  buf' = HeaderEncode(TRUE, payload_len(wrapper[1]) + Len(items))
                        \o FieldsOf(wrapper[1]) \o items
    /\ pc' = "fed"
    /\ UNCHANGED <<receipt, wrapper, out, len, before, res, reenc, records>>

\* ... a hand-crafted list whose header declares fewer bytes than the
\* encoder's fields take; the buffer holds the fields and what follows them.
FeedRedeclared ==
    /\ pc = "encoded"
    /\ OneRecord
    /\ \E p \in { 1, MandatoryLen(wrapper[1]) - 1, payload_len(wrapper[1]) - 1 },
          t \in TrailingValues :
         buf' = HeaderEncode(TRUE, p) \o FieldsOf(wrapper[1]) \o t
    /\ pc' = "fed"
    /\ UNCHANGED <<receipt, wrapper, out, len, before, res, reenc, records>>

\* ... the encoder's payload under a string header.
FeedAsString ==
    /\ pc = "encoded"
    /\ OneRecord
    /\ buf' = HeaderEncode(FALSE, payload_len(wrapper[1])) \o FieldsOf(wrapper[1])
    /\ pc' = "fed"
    /\ UNCHANGED <<receipt, wrapper, out, len, before, res, reenc, records>>

\* OpDepositReceiptWithBloom::decode(&mut buf), in a build with or without
\* overflow checks; again on the rest of the buffer after an Ok.
Decode ==
    /\ \/ pc = "fed"
       \/ pc = "decoded" /\ res.kind = "Ok" /\ buf /= <<>>
    /\ \E overflow_checks \in BOOLEAN :
         LET r == decode_receipt(buf, overflow_checks)
         IN  /\ res' = Returned(r)
             /\ buf' = r.cursor
    /\ before' = buf
    /\ reenc' = None
    /\ pc' = "decoded"
    /\ UNCHANGED <<receipt, wrapper, out, len, records>>

\* The decoded wrapper encoded into a fresh sink.
ReEncode ==
    /\ pc = "decoded"
    /\ res.kind = "Ok"
    /\ reenc = None
    /\ reenc' = Some(encode(res.value[1], <<>>))
    /\ UNCHANGED <<receipt, wrapper, out, len, buf, before, res, pc, records>>

Next ==
    \/ WithBloom
    \/ New
    \/ Length
    \/ Encode
    \/ Feed
    \/ FeedTruncated
    \/ FeedTrailing
    \/ FeedExtraItems
    \/ FeedRedeclared
    \/ FeedAsString
    \/ Decode
    \/ ReEncode

Spec == Init /\ [][Next]_vars

(***************************************************************************)
(* Properties.                                                             *)
(***************************************************************************)
Decoded == pc = "decoded"
W == wrapper[1]
DecodedReceipt == res.value[1].receipt

\* The header the decoder read from its input.
InputHeader == HeaderDecode(before)

\* The bytes the call of decode took from the caller's cursor.
ConsumedBytes == Take(before, Len(before) - Len(buf))

\* The input is exactly what encode wrote for the wrapper.
EncoderInput == Decoded /\ before = encode_fields(W)

\* W with other optional fields.
WithOptions(w, deposit_nonce, deposit_receipt_version) ==
    new(OpDepositReceipt(w.receipt.inner, deposit_nonce, deposit_receipt_version),
        w.logs_bloom)

\* The sum of the lengths of the fields encode writes after the header.
EmittedLen(w) ==
    Len(StatusEncode(w.receipt.inner.status))
        + Len(UintEncode(w.receipt.inner.cumulative_gas_used))
        + Len(BytesEncode(w.logs_bloom))
        + Len(LogsEncode(w.receipt.inner.logs))
        + (IF IsSome(w.receipt.deposit_nonce)
           THEN Len(UintEncode(w.receipt.deposit_nonce[1])) ELSE 0)
        + (IF IsSome(w.receipt.deposit_receipt_version)
           THEN Len(UintEncode(w.receipt.deposit_receipt_version[1])) ELSE 0)

\* C1: for a receipt R with a well-formed presence combination, decoding the
\* bytes encode wrote for with_bloom(R) returns Ok with a wrapper equal to
\* with_bloom(R) in every field.
C1_RoundTrip ==
    (EncoderInput /\ WellFormed(receipt) /\ W = with_bloom(receipt)) =>
        /\ res.kind = "Ok"
        /\ res.value = Some(with_bloom(receipt))
        /\ DecodedReceipt.inner.status = receipt.inner.status
        /\ DecodedReceipt.inner.cumulative_gas_used = receipt.inner.cumulative_gas_used
        /\ DecodedReceipt.inner.logs = receipt.inner.logs
        /\ res.value[1].logs_bloom = bloom_slow(receipt)
        /\ DecodedReceipt.deposit_nonce = receipt.deposit_nonce
        /\ DecodedReceipt.deposit_receipt_version = receipt.deposit_receipt_version

C1_Witness ==
    /\ EncoderInput
    /\ W = with_bloom(receipt)
    /\ res.kind = "Ok"
    /\ Len(receipt.inner.logs) > 0
    /\ \E i \in 1..BloomBytes : W.logs_bloom[i] /= 0
    /\ IsSome(receipt.deposit_nonce)
    /\ IsSome(receipt.deposit_receipt_version)

\* C2: length(W) is the number of bytes each encode(W) appended to the sink;
\* it is P + header_length(P) for the payload length P declared in the header
\* encode wrote, and P is the sum of the lengths of the fields written after it.
C2_LengthAccuracy ==
    pc = "measured" =>
        /\ HeaderDecode(out).ok
        /\ HeaderDecode(out).list
        /\ Len(out) = records * len[1]
        /\ Len(encode(W, <<>>)) = len[1]
        /\ len[1] = HeaderDecode(out).payload_length
                        + length_of_length(HeaderDecode(out).payload_length)
        /\ Len(out) - Len(HeaderDecode(out).rest)
                = length_of_length(HeaderDecode(out).payload_length)
        /\ HeaderDecode(out).payload_length = EmittedLen(W)

C2_Witness ==
    /\ pc = "measured"
    /\ records = 1
    /\ len = Some(Len(out))
    /\ Len(W.receipt.inner.logs) > 0
    /\ IsSome(W.receipt.deposit_nonce)
    /\ IsNone(W.receipt.deposit_receipt_version)

\* The input is what encode wrote for the wrapper, without its final byte.
TruncatedInput ==
    Decoded /\ before = Take(encode_fields(W), Len(encode_fields(W)) - 1)

\* C3 (as amended): decoding encode(W) without its final byte fails with
\* InputTooShort, raised when the list header is decoded (it declares more
\* payload than the buffer holds); no receipt is returned and the cursor
\* stays where it was.
C3_TruncationRejected ==
    TruncatedInput =>
        /\ res.kind = "Err"
        /\ res.err = "InputTooShort"
        /\ res.value = None
        /\ buf = before

\* C3 (as claimed): decoding encode(W) without its final byte fails with the
\* list-length-mismatch error.
C3_TruncationLengthMismatch ==
    TruncatedInput => (res.kind = "Err" /\ res.err = "ListLengthMismatch")

C3_Witness ==
    /\ TruncatedInput
    /\ res.kind = "Err"
    /\ W.receipt.deposit_receipt_version = Some(1)

\* The declared payload holds the six fields of W and more bytes after them.
SeventhItem ==
    /\ Decoded
    /\ IsSome(W.receipt.deposit_nonce)
    /\ IsSome(W.receipt.deposit_receipt_version)
    /\ InputHeader.ok
    /\ InputHeader.list
    /\ InputHeader.payload_length > payload_len(W)
    /\ Take(InputHeader.rest, payload_len(W)) = FieldsOf(W)

\* C4: decode returns Ok only if the bytes consumed after the header equal
\* the declared payload length; a ListLengthMismatch carries the declared
\* length and the bytes consumed and no receipt; and a declared payload that
\* holds more after the four mandatory and two optional fields gives
\* ListLengthMismatch with expected = payload_length and got = consumed.
C4_LengthCheck ==
    Decoded =>
        /\ res.kind = "Ok" =>
              /\ InputHeader.ok
              /\ InputHeader.list
              /\ Len(InputHeader.rest) - Len(buf) = InputHeader.payload_length
        /\ (res.kind = "Err" /\ res.err = "ListLengthMismatch") =>
              /\ res.expected = InputHeader.payload_length
              /\ res.got /= res.expected
              /\ res.value = None
        /\ SeventhItem =>
              /\ res.kind = "Err"
              /\ res.err = "ListLengthMismatch"
              /\ res.expected = InputHeader.payload_length
              /\ res.got = payload_len(W)
              /\ res.value = None

C4_Witness ==
    /\ SeventhItem
    /\ res.err = "ListLengthMismatch"
    /\ res.expected = res.got + 1

\* C5: a decoded receipt never has deposit_receipt_version = Some(_) with
\* deposit_nonce = None.
C5_VersionImpliesNonce ==
    (Decoded /\ res.kind = "Ok") =>
        (IsSome(DecodedReceipt.deposit_receipt_version)
            => IsSome(DecodedReceipt.deposit_nonce))

C5_Witness ==
    /\ Decoded
    /\ res.kind = "Ok"
    /\ IsSome(DecodedReceipt.deposit_receipt_version)
    /\ IsSome(DecodedReceipt.deposit_nonce)

\* C6: decode moves the caller's cursor if and only if it returns Ok; then
\* the cursor is past the list header and payload_length bytes, and what
\* followed them is still there; on every other return it is where it was.
C6_CursorDiscipline ==
    Decoded =>
        /\ (buf /= before) <=> (res.kind = "Ok")
        /\ res.kind = "Ok" =>
              buf = Drop(before, (Len(before) - Len(InputHeader.rest))
                                    + InputHeader.payload_length)
        /\ res.kind /= "Ok" => buf = before

C6_Witness ==
    /\ Decoded
    /\ res.kind = "Ok"
    /\ buf = <<1, 128>>
    /\ ConsumedBytes = encode_fields(W)

\* C7: an absent optional field is left out and a present one is written,
\* zero included: the fields of W are those of W without optional fields
\* followed by one item per present field; with deposit_nonce = Some(0) the
\* encoding is the one with None plus the item 0x80 under a payload length
\* larger by one, and the two decode to Some(0) and to None.
C7_AbsentVersusZero ==
    EncoderInput =>
        /\ FieldsOf(W) =
              FieldsOf(WithOptions(W, None, None))
                \o (IF IsSome(W.receipt.deposit_nonce)
                    THEN UintEncode(W.receipt.deposit_nonce[1]) ELSE <<>>)
                \o (IF IsSome(W.receipt.deposit_receipt_version)
                    THEN UintEncode(W.receipt.deposit_receipt_version[1]) ELSE <<>>)
        /\ (W.receipt.deposit_nonce = Some(0) /\ IsNone(W.receipt.deposit_receipt_version)) =>
              /\ before /= encode_fields(WithOptions(W, None, None))
              /\ FieldsOf(W) = FieldsOf(WithOptions(W, None, None)) \o <<128>>
              /\ InputHeader.payload_length
                    = HeaderDecode(encode_fields(WithOptions(W, None, None))).payload_length + 1
              /\ res.kind = "Ok"
              /\ DecodedReceipt.deposit_nonce = Some(0)
              /\ decode_receipt(encode_fields(WithOptions(W, None, None)), TRUE).value
                    = Some(WithOptions(W, None, None))

C7_Witness ==
    /\ EncoderInput
    /\ W.receipt.deposit_nonce = Some(0)
    /\ IsNone(W.receipt.deposit_receipt_version)
    /\ res.kind = "Ok"
    /\ DecodedReceipt.deposit_nonce = Some(0)

PayloadOverrun ==
    /\ Decoded
    /\ InputHeader.ok
    /\ InputHeader.list
    /\ InputHeader.payload_length < MandatoryLen(W)
    /\ Len(InputHeader.rest) >= MandatoryLen(W)
    /\ Take(InputHeader.rest, MandatoryLen(W)) = Take(FieldsOf(W), MandatoryLen(W))

\* C9: on a payload overrun decode returns an error to the caller, and
\* payload_length - consumed is never evaluated with consumed > payload_length.
C9_TypedFailureNoUnderflow ==
    PayloadOverrun => (res.kind = "Err" /\ ~res.underflow)

\* The declared payload holds the four fields of W, which has no optional
\* field, and exactly one integer item after them.
OneItemAfterLogs ==
    /\ Decoded
    /\ IsNone(W.receipt.deposit_nonce)
    /\ IsNone(W.receipt.deposit_receipt_version)
    /\ InputHeader.ok
    /\ InputHeader.list
    /\ Take(InputHeader.rest, payload_len(W)) = FieldsOf(W)
    /\ UintDecode(Drop(InputHeader.rest, payload_len(W)), U64Bytes).ok
    /\ Len(UintDecode(Drop(InputHeader.rest, payload_len(W)), U64Bytes).rest)
          = Len(InputHeader.rest) - InputHeader.payload_length

\* The wrapper has a version and no nonce, and decode gets its encoding.
VersionOnlyInput ==
    /\ EncoderInput
    /\ IsNone(W.receipt.deposit_nonce)
    /\ IsSome(W.receipt.deposit_receipt_version)

\* C10: one integer item after the logs is always decoded as deposit_nonce,
\* with deposit_receipt_version = None; so the encoding of a wrapper with a
\* version v and no nonce decodes to deposit_nonce = Some(v) and no version,
\* and is byte for byte the encoding of that wrapper.
C10_VersionOnly ==
    /\ OneItemAfterLogs =>
          /\ res.kind = "Ok"
          /\ IsSome(DecodedReceipt.deposit_nonce)
          /\ IsNone(DecodedReceipt.deposit_receipt_version)
    /\ VersionOnlyInput =>
          /\ res.kind = "Ok"
          /\ DecodedReceipt.deposit_nonce = W.receipt.deposit_receipt_version
          /\ IsNone(DecodedReceipt.deposit_receipt_version)
          /\ res.value = Some(WithOptions(W, W.receipt.deposit_receipt_version, None))
          /\ before = encode_fields(WithOptions(W, W.receipt.deposit_receipt_version, None))

C10_Witness ==
    /\ VersionOnlyInput
    /\ res.kind = "Ok"
    /\ DecodedReceipt.deposit_nonce = Some(1)

====
